---- MODULE Spec2Model ----
(***************************************************************************)
(* Model of todo.py: the TodoItem record, the TodoManager collection and   *)
(* its JSON storage file.                                                  *)
(*                                                                         *)
(* Python values are tagged records [ty, n, s] so that values of different *)
(* Python types can sit in the same field (from_dict does not validate).   *)
(* The storage file is modelled as its parsed content: missing, not        *)
(* decodable as UTF-8, not valid JSON, or a JSON value.                    *)
(***************************************************************************)
EXTENDS Integers, Sequences, FiniteSets, TLC

VARIABLES todos, file, op, arg, ret, lastIssued, clock

vars == <<todos, file, op, arg, ret, lastIssued, clock>>

(* ------------------------------ bounds --------------------------------- *)

\* Add is not taken when the id it would assign exceeds MaxId.
MaxId == 3
\* datetime.now() takes the values 1..MaxTime.
MaxTime == 2
\* longest top-level JSON list of the storage files SpecLoad starts from.
MaxLoadLen == 2

Times == 1..MaxTime
Descriptions == {"", "a"}
\* ids the callers pass: every id Add can assign, and one it never assigns.
ArgIds == 1..(MaxId + 1)

(* --------------------------- Python values ----------------------------- *)

PyInt(n) == [ty |-> "int", n |-> n, s |-> ""]
PyStr(s) == [ty |-> "str", n |-> 0, s |-> s]
PyBool(b) == [ty |-> "bool", n |-> IF b THEN 1 ELSE 0, s |-> ""]
PyNone == [ty |-> "None", n |-> 0, s |-> ""]

IsNumber(v) == v.ty \in {"int", "bool"}

\* bool(v)
Truthy(v) ==
    CASE v.ty \in {"int", "bool"} -> v.n # 0
      [] v.ty = "str" -> v.s # ""
      [] OTHER -> FALSE

\* a == b  (bool is a subclass of int: True == 1)
PyEq(a, b) ==
    CASE IsNumber(a) /\ IsNumber(b) -> a.n = b.n
      [] a.ty = "str" /\ b.ty = "str" -> a.s = b.s
      [] a.ty = "None" /\ b.ty = "None" -> TRUE
      [] OTHER -> FALSE

\* datetime.now().isoformat()
IsoFormat(t) == "2024-01-01T10:00:0" \o ToString(t)

(* ------------------------------ TodoItem ------------------------------- *)

\* TodoItem.__init__ ; now is the value datetime.now() would give.
TodoItem(id, description, completed, created_at, now) ==
    [id |-> id,
     description |-> description,
     completed |-> completed,
     created_at |-> IF Truthy(created_at) THEN created_at
                    ELSE PyStr(IsoFormat(now))]

ItemKeys == {"id", "description", "completed", "created_at"}

\* a JSON object / Python dict: a function from its keys to values
Dict(fields) == [ty |-> "dict", n |-> 0, s |-> "", fields |-> fields]
\* a JSON scalar standing where an object is expected
Scalar(v) == [ty |-> v.ty, n |-> v.n, s |-> v.s, fields |-> <<>>]

\* to_dict writing a constant in place of the completed flag
to_dict_NoCompleted(todo) ==
    Dict([k \in ItemKeys |->
            CASE k = "id" -> todo.id
              [] k = "description" -> todo.description
              [] k = "completed" -> PyBool(FALSE)
              [] k = "created_at" -> todo.created_at])

\* TodoItem.to_dict
to_dict(todo) ==
    Dict([k \in ItemKeys |->
            CASE k = "id" -> todo.id
              [] k = "description" -> todo.description
              [] k = "completed" -> todo.completed
              [] k = "created_at" -> todo.created_at])

\* the exception TodoItem.from_dict raises on data, "" if none:
\* subscripting a non-dict is a TypeError, a missing key a KeyError.
from_dict_error(data) ==
    IF data.ty # "dict" THEN "TypeError"
    ELSE IF ItemKeys \subseteq DOMAIN data.fields THEN ""
    ELSE "KeyError"

\* TodoItem.from_dict, where it raises nothing
from_dict(data, now) ==
    TodoItem(data.fields["id"], data.fields["description"],
             data.fields["completed"], data.fields["created_at"], now)

(* ----------------------------- storage --------------------------------- *)

\* file contents
Missing == [st |-> "missing", top |-> "", items |-> <<>>]
\* bytes that are not UTF-8
BadUtf8 == [st |-> "badutf8", top |-> "", items |-> <<>>]
\* text that is not JSON (an empty file is one)
NotJson == [st |-> "notjson", top |-> "", items |-> <<>>]
\* a JSON list
JsonList(items) == [st |-> "json", top |-> "list", items |-> items]
\* a JSON object with n keys, a JSON string of n characters
JsonObject(keys) == [st |-> "json", top |-> "dict", items |-> keys]
JsonString(chars) == [st |-> "json", top |-> "str", items |-> chars]
\* a JSON number, true, false or null
JsonAtom == [st |-> "json", top |-> "atom", items |-> <<>>]

\* index of the first element of data on which from_dict raises, 0 if none
RECURSIVE FirstBad(_, _)
FirstBad(data, i) ==
    IF i > Len(data) THEN 0
    ELSE IF from_dict_error(data[i]) # "" THEN i
    ELSE FirstBad(data, i + 1)

\* TodoManager.__init__ + load_todos: the collection after construction and
\* the exception that leaves the constructor ("" if none).
load_todos(f, now) ==
    IF f.st = "missing" THEN [todos |-> <<>>, raised |-> ""]
    ELSE IF f.st = "badutf8" THEN [todos |-> <<>>, raised |-> "UnicodeDecodeError"]
    ELSE IF f.st = "notjson" THEN [todos |-> <<>>, raised |-> ""]
    ELSE IF f.top = "atom" THEN [todos |-> <<>>, raised |-> "TypeError"]
    ELSE IF f.top \in {"dict", "str"} THEN
        \* iterating yields keys or characters: strings, not subscriptable by 'id'
        [todos |-> <<>>, raised |-> IF Len(f.items) = 0 THEN "" ELSE "TypeError"]
    ELSE LET bad == FirstBad(f.items, 1) IN
        IF bad = 0
        THEN [todos |-> [i \in 1..Len(f.items) |-> from_dict(f.items[i], now)],
              raised |-> ""]
        ELSE IF from_dict_error(f.items[bad]) = "KeyError"
        THEN [todos |-> <<>>, raised |-> ""]
        ELSE [todos |-> <<>>, raised |-> "TypeError"]

\* TodoManager.save_todos: the file after json.dump
save_todos(ts) == JsonList([i \in 1..Len(ts) |-> to_dict(ts[i])])

(* --------------------------- return values ----------------------------- *)

RetNone == [kind |-> "None", b |-> FALSE, n |-> 0, items |-> <<>>]
RetBool(b) == [kind |-> "bool", b |-> b, n |-> 0, items |-> <<>>]
RetInt(n) == [kind |-> "int", b |-> FALSE, n |-> n, items |-> <<>>]
RetItem(todo) == [kind |-> "item", b |-> FALSE, n |-> 0, items |-> <<todo>>]
RetList(ts) == [kind |-> "list", b |-> FALSE, n |-> 0, items |-> ts]
RetRaised(e) == [kind |-> e, b |-> FALSE, n |-> 0, items |-> <<>>]

(* ---------------------------- TodoManager ------------------------------ *)

\* index of the first todo with todo.id == todo_id at or after i, 0 if none
RECURSIVE FindFrom(_, _, _)
FindFrom(ts, todo_id, i) ==
    IF i > Len(ts) THEN 0
    ELSE IF PyEq(ts[i].id, PyInt(todo_id)) THEN i
    ELSE FindFrom(ts, todo_id, i + 1)

\* the for loop of complete_todo, remove_todo, get_todo and edit_todo
Find(ts, todo_id) == FindFrom(ts, todo_id, 1)

\* max(ns, default=0) over numbers
RECURSIVE MaxFrom(_, _, _)
MaxFrom(ts, i, m) ==
    IF i > Len(ts) THEN m
    ELSE MaxFrom(ts, i + 1, IF i = 1 \/ ts[i].id.n > m THEN ts[i].id.n ELSE m)

\* the next id without the + 1
NewId_NoIncrement(ts) == MaxFrom(ts, 1, 0)

\* the next id taken from the number of records: len(self.todos) + 1
NewId_Count(ts) == Len(ts) + 1

\* max([todo.id for todo in self.todos], default=0) + 1
NewId(ts) == MaxFrom(ts, 1, 0) + 1

\* ts without its i-th element
DelAt(ts, i) == [j \in 1..(Len(ts) - 1) |-> IF j < i THEN ts[j] ELSE ts[j + 1]]

IsPending(todo) == ~Truthy(todo.completed)

\* add_todo inserting the new record at the front of the collection
add_todo_Prepend(ts, f, description, now) ==
    LET todo == TodoItem(PyInt(NewId(ts)), PyStr(description),
                         PyBool(FALSE), PyNone, now)
        new == <<todo>> \o ts
    IN [todos |-> new, file |-> save_todos(new), ret |-> RetItem(todo)]

\* TodoManager.add_todo
add_todo(ts, f, description, now) ==
    IF \E i \in 1..Len(ts) : ~IsNumber(ts[i].id)
    THEN \* max() or + 1 raises on an id that is no number
         [todos |-> ts, file |-> f, ret |-> RetRaised("TypeError")]
    ELSE LET todo == TodoItem(PyInt(NewId(ts)), PyStr(description),
                              PyBool(FALSE), PyNone, now)
             new == Append(ts, todo)
         IN [todos |-> new, file |-> save_todos(new), ret |-> RetItem(todo)]

\* list_todos ignoring show_completed
list_todos_IgnoreFlag(ts, f, show_completed) ==
    [todos |-> ts, file |-> f, ret |-> RetList(ts)]

\* TodoManager.list_todos
list_todos(ts, f, show_completed) ==
    [todos |-> ts, file |-> f,
     ret |-> IF show_completed THEN RetList(ts)
             ELSE RetList(SelectSeq(ts, IsPending))]

\* complete_todo flipping the flag: todo.completed = not todo.completed
complete_todo_Toggle(ts, f, todo_id) ==
    LET i == Find(ts, todo_id) IN
    IF i = 0 THEN [todos |-> ts, file |-> f, ret |-> RetBool(FALSE)]
    ELSE LET new == [ts EXCEPT ![i].completed = PyBool(IsPending(ts[i]))]
         IN [todos |-> new, file |-> save_todos(new), ret |-> RetBool(TRUE)]

\* TodoManager.complete_todo
complete_todo(ts, f, todo_id) ==
    LET i == Find(ts, todo_id) IN
    IF i = 0 THEN [todos |-> ts, file |-> f, ret |-> RetBool(FALSE)]
    ELSE LET new == [ts EXCEPT ![i].completed = PyBool(TRUE)]
         IN [todos |-> new, file |-> save_todos(new), ret |-> RetBool(TRUE)]

\* remove_todo deleting the first record instead of the one found
remove_todo_First(ts, f, todo_id) ==
    LET i == Find(ts, todo_id) IN
    IF i = 0 THEN [todos |-> ts, file |-> f, ret |-> RetBool(FALSE)]
    ELSE LET new == DelAt(ts, 1)
         IN [todos |-> new, file |-> save_todos(new), ret |-> RetBool(TRUE)]

\* TodoManager.remove_todo
remove_todo(ts, f, todo_id) ==
    LET i == Find(ts, todo_id) IN
    IF i = 0 THEN [todos |-> ts, file |-> f, ret |-> RetBool(FALSE)]
    ELSE LET new == DelAt(ts, i)
         IN [todos |-> new, file |-> save_todos(new), ret |-> RetBool(TRUE)]

\* TodoManager.get_todo
get_todo(ts, f, todo_id) ==
    LET i == Find(ts, todo_id) IN
    [todos |-> ts, file |-> f,
     ret |-> IF i = 0 THEN RetNone ELSE RetItem(ts[i])]

\* clear_completed keeping the completed records instead of the pending ones
clear_completed_Inverted(ts, f) ==
    LET new == SelectSeq(ts, LAMBDA t : ~IsPending(t))
        removed_count == Len(ts) - Len(new)
    IN [todos |-> new,
        file |-> IF removed_count > 0 THEN save_todos(new) ELSE f,
        ret |-> RetInt(removed_count)]

\* TodoManager.clear_completed
clear_completed(ts, f) ==
    LET new == SelectSeq(ts, IsPending)
        removed_count == Len(ts) - Len(new)
    IN [todos |-> new,
        file |-> IF removed_count > 0 THEN save_todos(new) ELSE f,
        ret |-> RetInt(removed_count)]

\* edit_todo saving after the loop, whether or not the id was found
edit_todo_AlwaysSave(ts, f, todo_id, new_description) ==
    LET i == Find(ts, todo_id) IN
    IF i = 0 THEN [todos |-> ts, file |-> save_todos(ts), ret |-> RetBool(FALSE)]
    ELSE LET new == [ts EXCEPT ![i].description = PyStr(new_description)]
         IN [todos |-> new, file |-> save_todos(new), ret |-> RetBool(TRUE)]

\* edit_todo replacing the record by a new TodoItem(id, new_description),
\* constructed at time 1
edit_todo_Recreate(ts, f, todo_id, new_description) ==
    LET i == Find(ts, todo_id) IN
    IF i = 0 THEN [todos |-> ts, file |-> f, ret |-> RetBool(FALSE)]
    ELSE LET new == [ts EXCEPT ![i] = TodoItem(ts[i].id, PyStr(new_description),
                                               PyBool(FALSE), PyNone, 1)]
         IN [todos |-> new, file |-> save_todos(new), ret |-> RetBool(TRUE)]

\* TodoManager.edit_todo
edit_todo(ts, f, todo_id, new_description) ==
    LET i == Find(ts, todo_id) IN
    IF i = 0 THEN [todos |-> ts, file |-> f, ret |-> RetBool(FALSE)]
    ELSE LET new == [ts EXCEPT ![i].description = PyStr(new_description)]
         IN [todos |-> new, file |-> save_todos(new), ret |-> RetBool(TRUE)]

(* ------------------------------ actions -------------------------------- *)

NoArg == [id |-> 0, d |-> "", f |-> FALSE]

\* the state a call leaves behind
Apply(name, a, r) ==
    /\ todos' = r.todos
    /\ file' = r.file
    /\ op' = name
    /\ arg' = a
    /\ ret' = r.ret

\* a manager constructed on a location with no file, or with the empty file
\* the tests create: load_todos leaves the collection empty.
Init ==
    /\ file \in {Missing, NotJson}
    /\ todos = load_todos(file, 1).todos
    /\ op = "init"
    /\ arg = NoArg
    /\ ret = RetNone
    /\ lastIssued = 0
    /\ clock = 1

\* the clock does not run backwards: now is at or after the last reading
Add ==
    \E d \in Descriptions, now \in clock..MaxTime :
        /\ NewId(todos) <= MaxId
        /\ Apply("add", [NoArg EXCEPT !.d = d], add_todo(todos, file, d, now))
        /\ clock' = now

List ==
    \E show \in BOOLEAN :
        /\ Apply("list", [NoArg EXCEPT !.f = show], list_todos(todos, file, show))
        /\ UNCHANGED clock

Complete ==
    \E id \in ArgIds :
        /\ Apply("complete", [NoArg EXCEPT !.id = id], complete_todo(todos, file, id))
        /\ UNCHANGED clock

Remove ==
    \E id \in ArgIds :
        /\ Apply("remove", [NoArg EXCEPT !.id = id], remove_todo(todos, file, id))
        /\ UNCHANGED clock

GetById ==
    \E id \in ArgIds :
        /\ Apply("get", [NoArg EXCEPT !.id = id], get_todo(todos, file, id))
        /\ UNCHANGED clock

ClearCompleted ==
    /\ Apply("clear", NoArg, clear_completed(todos, file))
    /\ UNCHANGED clock

Edit ==
    \E id \in ArgIds, d \in Descriptions :
        /\ Apply("edit", [NoArg EXCEPT !.id = id, !.d = d], edit_todo(todos, file, id, d))
        /\ UNCHANGED clock

\* a second manager is constructed on the same storage location and takes
\* the place of the first.
Reload ==
    LET r == load_todos(file, clock) IN
    /\ r.raised = ""
    /\ todos' = r.todos
    /\ op' = "reload"
    /\ arg' = NoArg
    /\ ret' = RetNone
    /\ UNCHANGED <<file, clock>>

\* every operation of the manager, and its replacement by a second manager
Next ==
    \/ Add /\ UNCHANGED lastIssued
    \/ List /\ UNCHANGED lastIssued
    \/ Complete /\ UNCHANGED lastIssued
    \/ Remove /\ UNCHANGED lastIssued
    \/ GetById /\ UNCHANGED lastIssued
    \/ ClearCompleted /\ UNCHANGED lastIssued
    \/ Edit /\ UNCHANGED lastIssued
    \/ Reload /\ UNCHANGED lastIssued

Spec == Init /\ [][Next]_vars

\* one manager instance under Add, Remove, Complete, Edit and ClearCompleted,
\* with the id of the last Add kept in lastIssued
AddIssue ==
    /\ Add
    /\ lastIssued' = IF ret'.kind = "item" THEN ret'.items[1].id.n ELSE lastIssued

NextIds ==
    \/ AddIssue
    \/ Complete /\ UNCHANGED lastIssued
    \/ Remove /\ UNCHANGED lastIssued
    \/ ClearCompleted /\ UNCHANGED lastIssued
    \/ Edit /\ UNCHANGED lastIssued

SpecIds == Init /\ [][NextIds]_vars

(* ------------------- construction on arbitrary storage ----------------- *)

Iso1 == PyStr(IsoFormat(1))

\* a dict with the four keys of a record
ItemDict(id, description, completed, created_at) ==
    Dict([k \in ItemKeys |->
            CASE k = "id" -> id
              [] k = "description" -> description
              [] k = "completed" -> completed
              [] k = "created_at" -> created_at])

\* d without key k
Without(d, k) == Dict([x \in (DOMAIN d.fields) \ {k} |-> d.fields[x]])

GoodDicts ==
    {ItemDict(PyInt(id), PyStr("a"), PyBool(c), Iso1) : id \in 1..2, c \in BOOLEAN}

MissingKeyDicts ==
    {Without(ItemDict(PyInt(1), PyStr("a"), PyBool(FALSE), Iso1), k) : k \in ItemKeys}
        \cup {Dict(<<>>)}

WrongShapeDicts ==
    {ItemDict(PyStr("x"), PyStr("a"), PyBool(FALSE), Iso1),
     ItemDict(PyInt(1), PyInt(7), PyBool(FALSE), Iso1),
     ItemDict(PyInt(1), PyStr("a"), PyNone, PyNone)}

NonDicts == {Scalar(PyInt(1)), Scalar(PyStr("a")), Scalar(PyNone)}

LoadElems == GoodDicts \cup MissingKeyDicts \cup WrongShapeDicts \cup NonDicts

LoadLists == UNION {[1..n -> LoadElems] : n \in 0..MaxLoadLen}

\* the storage contents a manager is constructed on
LoadFiles ==
    {Missing, BadUtf8, NotJson, JsonAtom,
     JsonObject(<<>>), JsonObject(<<Scalar(PyStr("id"))>>),
     JsonString(<<>>), JsonString(<<Scalar(PyStr("a"))>>)}
        \cup {JsonList(l) : l \in LoadLists}

\* before TodoManager(filename) is called
InitLoad ==
    /\ file \in LoadFiles
    /\ todos = <<>>
    /\ op = "new"
    /\ arg = NoArg
    /\ ret = RetNone
    /\ lastIssued = 0
    /\ clock = 1

\* TodoManager(filename)
Construct ==
    \E now \in Times :
        LET r == load_todos(file, now) IN
        /\ op = "new"
        /\ todos' = r.todos
        /\ op' = "construct"
        /\ ret' = IF r.raised = "" THEN RetNone ELSE RetRaised(r.raised)
        /\ UNCHANGED <<file, arg, lastIssued, clock>>

NextLoad == Construct

SpecLoad == InitLoad /\ [][NextLoad]_vars

(* ------------------------------ properties ----------------------------- *)

\* ids carried by the records of ts
Ids(ts) == {ts[i].id.n : i \in 1..Len(ts)}

\* the record Add returned
Added(r) == r.items[1]

\* the index in ts of its k-th pending record
PendingIndex(ts, k) ==
    CHOOSE i \in 1..Len(ts) :
        /\ IsPending(ts[i])
        /\ Cardinality({j \in 1..i : IsPending(ts[j])}) = k

\* the pending records of ts, in the order of ts
PendingOf(ts) ==
    [k \in 1..Cardinality({i \in 1..Len(ts) : IsPending(ts[i])}) |->
        ts[PendingIndex(ts, k)]]

\* C1 (as stated): within one manager instance the ids Add returns are
\* strictly increasing, so Add never hands out again the id of a record that
\* was removed.
C1_IdsStrictlyIncreasing ==
    [][op' = "add" => Added(ret').id.n > lastIssued]_vars

\* C1 (amended): the id Add gives to a new record is strictly greater than
\* the id of every record in the collection at the time of the call.
C1_AddIdAboveCurrent ==
    [][op' = "add" => \A n \in Ids(todos) : n < Added(ret').id.n]_vars

\* Add ran after the record with id 1 had been removed.
C1_Witness ==
    /\ op = "add"
    /\ Len(todos) = 2
    /\ todos[1].id.n = 2

\* C2: no two records of the collection have the same id.
C2_UniqueIds ==
    \A i, j \in 1..Len(todos) : i # j => ~PyEq(todos[i].id, todos[j].id)

\* a second manager loaded a collection of several records.
C2_Witness ==
    /\ op = "reload"
    /\ Len(todos) >= 2

\* C3: a second manager constructed on the same storage location gets a
\* collection equal to the first manager's: same records, same order.
C3_ReloadEqual ==
    \A now \in Times :
        /\ load_todos(file, now).raised = ""
        /\ load_todos(file, now).todos = todos

\* two tasks were added and the second one completed.
C3_Witness ==
    /\ op = "complete"
    /\ Len(todos) = 2
    /\ IsPending(todos[1])
    /\ ~IsPending(todos[2])

\* a dict that is a record: the four keys, each of the right type
WellShaped(d) ==
    /\ d.ty = "dict"
    /\ DOMAIN d.fields = ItemKeys
    /\ d.fields["id"].ty = "int"
    /\ d.fields["description"].ty = "str"
    /\ d.fields["completed"].ty = "bool"
    /\ d.fields["created_at"].ty = "str"

\* storage that is missing, not valid, not a list of records
Unusable(f) ==
    \/ f.st # "json"
    \/ f.top # "list"
    \/ \E i \in 1..Len(f.items) : ~WellShaped(f.items[i])

\* C4: constructing a manager surfaces no error, and on unusable storage it
\* ends with an empty collection.
C4_LoadFallsBack ==
    op = "construct" =>
        /\ ret = RetNone
        /\ Unusable(file) => todos = <<>>

\* no record of ts carries todo_id
Absent(ts, todo_id) == \A i \in 1..Len(ts) : ts[i].id # PyInt(todo_id)

\* C5: Complete, Remove and Edit on an id no record carries return false,
\* GetById returns None, and collection and storage stay as they were.
C5_NotFoundNoEffect ==
    [][(op' \in {"complete", "remove", "edit", "get"} /\ Absent(todos, arg'.id)) =>
            /\ ret' = IF op' = "get" THEN RetNone ELSE RetBool(FALSE)
            /\ todos' = todos
            /\ file' = file]_vars

\* Edit was called with an id that a non-empty collection does not hold.
C5_Witness ==
    /\ op = "edit"
    /\ ret = RetBool(FALSE)
    /\ Len(todos) >= 1

\* C6: after Remove(id) returned true the collection is one record shorter,
\* GetById(id) returns None and a second Remove(id) returns false.
C6_RemoveThenAbsent ==
    [][(op' = "remove" /\ ret' = RetBool(TRUE)) =>
            /\ Len(todos') = Len(todos) - 1
            /\ get_todo(todos', file', arg'.id).ret = RetNone
            /\ remove_todo(todos', file', arg'.id).ret = RetBool(FALSE)]_vars

\* Remove found its record and left at least one other behind.
C6_Witness ==
    /\ op = "remove"
    /\ ret = RetBool(TRUE)
    /\ Len(todos) >= 1

\* C7: ClearCompleted leaves exactly the pending records, unchanged and in
\* their order, and returns the number of completed records it removed; a
\* second ClearCompleted right after returns 0 and changes nothing.
C7_ClearCompleted ==
    [][op' = "clear" =>
            /\ todos' = PendingOf(todos)
            /\ \A i \in 1..Len(todos') : IsPending(todos'[i])
            /\ ret' = RetInt(Cardinality({i \in 1..Len(todos) : ~IsPending(todos[i])}))
            /\ clear_completed(todos', file') =
                   [todos |-> todos', file |-> file', ret |-> RetInt(0)]]_vars

\* of three records the first and the third were completed and cleared.
C7_Witness ==
    /\ op = "clear"
    /\ ret = RetInt(2)
    /\ Len(todos) = 1
    /\ todos[1].id.n = 2

\* C8: List(show_completed=False) returns the pending records, each once and
\* in collection order; List(True) returns the collection; neither changes
\* the collection or the storage.
C8_List ==
    [][op' = "list" =>
            /\ ret'.kind = "list"
            /\ ret'.items = IF arg'.f THEN todos ELSE PendingOf(todos)
            /\ ~arg'.f => \A i \in 1..Len(ret'.items) : IsPending(ret'.items[i])
            /\ todos' = todos
            /\ file' = file]_vars

\* the pending records were listed of a collection that holds a completed
\* record between two pending ones.
C8_Witness ==
    /\ op = "list"
    /\ ~arg.f
    /\ Len(todos) = 3
    /\ ~IsPending(todos[2])
    /\ Len(ret.items) = 2

\* the greatest id of ts, 0 for the empty collection
MaxOf(ts) == IF ts = <<>> THEN 0 ELSE CHOOSE m \in Ids(ts) : \A n \in Ids(ts) : n <= m

\* C9: Add(d) appends one record with id = greatest id + 1 (1 on the empty
\* collection), description d and completed = False, returns it, and leaves
\* the earlier records as they were.
C9_Add ==
    [][op' = "add" =>
            /\ Len(todos') = Len(todos) + 1
            /\ SubSeq(todos', 1, Len(todos)) = todos
            /\ todos'[Len(todos')].id = PyInt(MaxOf(todos) + 1)
            /\ todos'[Len(todos')].description = PyStr(arg'.d)
            /\ todos'[Len(todos')].completed = PyBool(FALSE)
            /\ ret' = RetItem(todos'[Len(todos')])
            /\ todos = <<>> => Added(ret').id = PyInt(1)]_vars

\* three successive Adds got the ids 1, 2, 3.
C9_Witness ==
    /\ op = "add"
    /\ Len(todos) = 3
    /\ \A i \in 1..3 : todos[i].id = PyInt(i)

\* C10: Edit(id, d) on an existing id changes the description of the first
\* record with that id and nothing else; no operation changes the created_at
\* of a record that stays in the collection.
C10_EditFrame ==
    [][/\ (op' = "edit" /\ ret' = RetBool(TRUE)) =>
              /\ Len(todos') = Len(todos)
              /\ \E i \in 1..Len(todos) :
                    /\ todos[i].id = PyInt(arg'.id)
                    /\ \A j \in 1..(i - 1) : todos[j].id # PyInt(arg'.id)
                    /\ todos'[i].description = PyStr(arg'.d)
                    /\ todos'[i].id = todos[i].id
                    /\ todos'[i].completed = todos[i].completed
                    /\ todos'[i].created_at = todos[i].created_at
                    /\ \A j \in 1..Len(todos) : j # i => todos'[j] = todos[j]
       /\ \A i \in 1..Len(todos), j \in 1..Len(todos') :
              todos'[j].id = todos[i].id => todos'[j].created_at = todos[i].created_at]_vars

\* Edit gave a new description to the second, completed record.
C10_Witness ==
    /\ op = "edit"
    /\ ret = RetBool(TRUE)
    /\ Len(todos) >= 2
    /\ arg.id = todos[2].id.n
    /\ ~IsPending(todos[2])
    /\ todos[2].description = PyStr("a")

\* C11: Complete(id) on an existing id returns true, sets the completed flag
\* of the first record with that id and changes nothing else, leaves in
\* storage the collection as it now is, and leaves the collection as it was
\* when the record was completed already; no operation turns a completed
\* record that stays in the collection back to pending.
C11_CompleteIdempotent ==
    [][/\ (op' = "complete" /\ ~Absent(todos, arg'.id)) =>
              /\ ret' = RetBool(TRUE)
              /\ Len(todos') = Len(todos)
              /\ \E i \in 1..Len(todos) :
                    /\ todos[i].id = PyInt(arg'.id)
                    /\ \A j \in 1..(i - 1) : todos[j].id # PyInt(arg'.id)
                    /\ todos'[i].completed = PyBool(TRUE)
                    /\ todos'[i].id = todos[i].id
                    /\ todos'[i].description = todos[i].description
                    /\ todos'[i].created_at = todos[i].created_at
                    /\ \A j \in 1..Len(todos) : j # i => todos'[j] = todos[j]
                    /\ ~IsPending(todos[i]) => todos' = todos
              /\ file'.st = "json"
              /\ load_todos(file', clock').todos = todos'
       /\ \A i \in 1..Len(todos), j \in 1..Len(todos') :
              (todos'[j].id = todos[i].id /\ ~IsPending(todos[i])) =>
                  ~IsPending(todos'[j])]_vars

\* Complete found its record, which is now completed beside a pending one.
C11_Witness ==
    /\ op = "complete"
    /\ ret = RetBool(TRUE)
    /\ Len(todos) >= 2
    /\ \E i, j \in 1..Len(todos) :
          /\ todos[i].id = PyInt(arg.id)
          /\ ~IsPending(todos[i])
          /\ IsPending(todos[j])

====
